---- MODULE Spec2Model ----
(***************************************************************************)
(* Model of the handwriting-to-font backend (backend/pipeline/*.py and the  *)
(* endpoints of backend/main.py).                                           *)
(*                                                                          *)
(* Every operation of the backend is a synchronous call that owns its data  *)
(* (no state is shared between requests), so the state of the model is the  *)
(* last call: which operation ran (call), what it was given (arg) and what  *)
(* it returned or raised (ret).  One action per operation computes the      *)
(* whole call; the two font endpoints of main.py run stage by stage, with   *)
(* the handler's position kept in ret until it replies.                     *)
(*                                                                          *)
(* OpenCV's findContours / boundingRect / findNonZero are library routines: *)
(* a mask reaches the model as what they report for it (the traced          *)
(* contours with their hierarchy, the regions' bounding boxes, the set of   *)
(* foreground pixels).  fontTools' binary serialisation is modelled by the  *)
(* tables handed to it (glyph order, cmap, glyf, hmtx).                      *)
(***************************************************************************)
EXTENDS Integers, Sequences, FiniteSets, TLC

VARIABLES call, arg, ret

vars == <<call, arg, ret>>

(***************************************************************************)
(* Generic helpers                                                          *)
(***************************************************************************)
Max(a, b) == IF a >= b THEN a ELSE b

Min(a, b) == IF a <= b THEN a ELSE b

Abs(a) == IF a >= 0 THEN a ELSE -a

Range(s) == {s[i] : i \in DOMAIN s}

\* Python's round() on the quotient n/d (d > 0): nearest integer, ties to
\* even.  The code rounds a float product; it can differ from the exact
\* quotient only in which neighbour an exact tie goes to.
Round(n, d) ==
  LET q == n \div d
      r == n % d
  IN  IF 2 * r < d THEN q
      ELSE IF 2 * r > d THEN q + 1
      ELSE IF q % 2 = 0 THEN q ELSE q + 1

\* all sequences over S of length lo..hi
SeqsBetween(S, lo, hi) == UNION {[1..n -> S] : n \in lo..hi}

\* sequences without a repeated element
Injective(s) == \A i, j \in DOMAIN s : i # j => s[i] # s[j]

(***************************************************************************)
(* Characters: the str methods the code uses, on a small alphabet           *)
(***************************************************************************)
Alphabet == {"a", "b", "c", "d", "A", "B", " ", "1"}

\* ord(c)
Ord(c) ==
  CASE c = "a" -> 97 [] c = "b" -> 98 [] c = "c" -> 99 [] c = "d" -> 100
    [] c = "A" -> 65 [] c = "B" -> 66 [] c = " " -> 32 [] c = "1" -> 49

\* c.islower()
IsLower(c) == c \in {"a", "b", "c", "d"}

\* c.isalpha()
IsAlpha(c) == c \in {"a", "b", "c", "d", "A", "B"}

\* c.upper()
Upper(c) == CASE c = "a" -> "A" [] c = "b" -> "B" [] OTHER -> c

\* c.lower()
Lower(c) == CASE c = "A" -> "a" [] c = "B" -> "b" [] OTHER -> c

HexDigit(n) ==
  CASE n = 0 -> "0" [] n = 1 -> "1" [] n = 2 -> "2" [] n = 3 -> "3"
    [] n = 4 -> "4" [] n = 5 -> "5" [] n = 6 -> "6" [] n = 7 -> "7"
    [] n = 8 -> "8" [] n = 9 -> "9" [] n = 10 -> "A" [] n = 11 -> "B"
    [] n = 12 -> "C" [] n = 13 -> "D" [] n = 14 -> "E" [] n = 15 -> "F"

\* f"uni{ord(c):04X}"
GlyphName(c) ==
  LET n == Ord(c)
  IN  "uni" \o HexDigit((n \div 4096) % 16) \o HexDigit((n \div 256) % 16)
            \o HexDigit((n \div 16) % 16) \o HexDigit(n % 16)

(***************************************************************************)
(* Font assembler (pipeline/fontgen.py)                                     *)
(*                                                                          *)
(* A glyphs mapping is a Python dict: a sequence of [char, data] entries    *)
(* with distinct keys, in insertion order.  data is a glyph record          *)
(* [paths, advance_width, lsb]; a path is [points, is_hole].                *)
(***************************************************************************)
UNITS_PER_EM == 1000

ASCENDER == 800

DESCENDER == -200

Keys(glyphs) == [i \in DOMAIN glyphs |-> glyphs[i].char]

\* glyphs[c]
Lookup(glyphs, c) ==
  (CHOOSE i \in DOMAIN glyphs : glyphs[i].char = c) 

\* sorted(glyphs.keys()): ascending code point
RECURSIVE SortedChars(_)
SortedChars(S) ==
  IF S = {} THEN <<>>
  ELSE LET m == CHOOSE c \in S : \A d \in S : Ord(c) <= Ord(d)
       IN  <<m>> \o SortedChars(S \ {m})

\* fontgen.py 33-35: glyph order
GlyphOrder(glyphs) ==
  LET sorted == SortedChars(Range(Keys(glyphs)))
  IN  <<".notdef", "space">> \o [i \in DOMAIN sorted |-> GlyphName(sorted[i])]

\* cmap[k] = v on a dict held as a function
DictSet(d, k, v) == [x \in (DOMAIN d) \cup {k} |-> IF x = k THEN v ELSE d[x]]

\* fontgen.py 43-48: the body of the cmap loop for one key
CmapStep(cmap, char) ==
  LET glyph_name == GlyphName(char)
      c1 == DictSet(cmap, Ord(char), glyph_name)
  IN  IF IsLower(char) THEN DictSet(c1, Ord(Upper(char)), glyph_name) ELSE c1

\* fontgen.py 42-48: cmap, filled in the mapping's own (insertion) order
RECURSIVE CmapLoop(_, _, _)
CmapLoop(cmap, keys, i) ==
  IF i > Len(keys) THEN cmap
  ELSE CmapLoop(CmapStep(cmap, keys[i]), keys, i + 1)

BuildCmap(glyphs) == CmapLoop([x \in {Ord(" ")} |-> "space"], Keys(glyphs), 1)

\* fontgen.py 56-68: the .notdef glyph, a rectangle with an inner cutout
NotdefContours ==
  << <<<<100, 0>>, <<100, 700>>, <<500, 700>>, <<500, 0>>>>,
     <<<<150, 50>>, <<450, 50>>, <<450, 650>>, <<150, 650>>>> >>

\* fontgen.py 80-90: a path of fewer than 3 points draws nothing
KeepPath(path_group) == Len(path_group.points) >= 3

\* fontgen.py 78-97: the contours the pen records for one glyph
PenGlyph(glyph_data) ==
  LET kept == SelectSeq(glyph_data.paths, KeepPath)
  IN  [i \in DOMAIN kept |-> kept[i].points]

\* fontgen.py 53-99: the glyf table
BuildGlyf(glyphs) ==
  LET names == Range(GlyphOrder(glyphs))
  IN  [n \in names |->
        IF n = ".notdef" THEN NotdefContours
        ELSE IF n = "space" THEN <<>>
        ELSE LET c == CHOOSE c \in Range(Keys(glyphs)) : GlyphName(c) = n
             IN  PenGlyph(glyphs[Lookup(glyphs, c)].data)]

\* fontgen.py 102-111: horizontal metrics
BuildMetrics(glyphs) ==
  LET names == Range(GlyphOrder(glyphs))
  IN  [n \in names |->
        IF n = ".notdef" THEN <<600, 100>>
        ELSE IF n = "space" THEN <<UNITS_PER_EM \div 4, 0>>
        ELSE LET c == CHOOSE c \in Range(Keys(glyphs)) : GlyphName(c) = n
                 d == glyphs[Lookup(glyphs, c)].data
             IN  <<d.advance_width, d.lsb>>]

\* the tables of the font fb.font holds before it is saved
FontTables(glyphs) ==
  [glyph_order |-> GlyphOrder(glyphs),
   cmap        |-> BuildCmap(glyphs),
   glyf        |-> BuildGlyf(glyphs),
   metrics     |-> BuildMetrics(glyphs)]

Raised(where, msg) == [status |-> "error", error |-> where, detail |-> msg]

\* fontgen.py 13-142: create_font; both binaries serialise the same tables
CreateFont(glyphs) ==
  LET font == FontTables(glyphs)
  IN  [status |-> "ok",
       ttf    |-> [flavor |-> "ttf",   font |-> font],
       woff2  |-> [flavor |-> "woff2", font |-> font]]

\* main.py 155-174: generate_font_endpoint
GenerateFontEndpoint(glyphs) ==
  IF glyphs = <<>> THEN Raised("HTTP400", "No glyph data provided")
  ELSE CreateFont(glyphs)

(***************************************************************************)
(* Vectorizer (pipeline/vectorize.py)                                       *)
(*                                                                          *)
(* A glyph bitmap is held as what cv2.findContours(RETR_CCOMP) reports for  *)
(* it: [contours, hole], contours a sequence of point sequences in pixel    *)
(* space and hole[i] true when hierarchy[0][i][3] # -1.  A bitmap without   *)
(* ink has no contours (and hierarchy None).                                *)
(***************************************************************************)
\* np.vstack(contours): the points of all contours
AllPoints(contours) == UNION {Range(contours[i]) : i \in DOMAIN contours}

SetMin(S) == CHOOSE m \in S : \A n \in S : m <= n

SetMax(S) == CHOOSE m \in S : \A n \in S : m >= n

\* cv2.boundingRect of a non-empty point set: x, y, w, h
BoundingRect(P) ==
  LET xs == {p[1] : p \in P}
      ys == {p[2] : p \in P}
  IN  [x |-> SetMin(xs), y |-> SetMin(ys),
       w |-> SetMax(xs) - SetMin(xs) + 1, h |-> SetMax(ys) - SetMin(ys) + 1]

\* vectorize.py 94-102: polygon_area, times 2 (the code halves the same sum)
PolygonArea2(points) ==
  LET n == Len(points)
      term[i \in 0..n] ==
        IF i = 0 THEN 0
        ELSE LET j == (i % n) + 1
             IN  term[i - 1] + points[i][1] * points[j][2]
                             - points[j][1] * points[i][2]
  IN  term[n]

Reverse(s) == [i \in DOMAIN s |-> s[Len(s) + 1 - i]]

\* vectorize.py 56-58: cv2.approxPolyDP(contour, 0.5, closed).  The library
\* keeps a subsequence of the contour's vertices, dropping those that lie
\* within epsilon of the simplified outline; modelled by dropping every
\* vertex within 0.5 px of the chord between its two neighbours
\* (dist > 1/2  <=>  4 * cross^2 > |chord|^2; coordinates stay below 2^14,
\* so |chord|^2 < 2^29 and the test is decided without leaving 32 bits).
ApproxPolyDP(contour) ==
  LET n == Len(contour)
      prev(i) == contour[IF i = 1 THEN n ELSE i - 1]
      next(i) == contour[IF i = n THEN 1 ELSE i + 1]
      far(i) ==
        LET a == prev(i)
            b == next(i)
            p == contour[i]
            cross == (b[1] - a[1]) * (p[2] - a[2]) - (b[2] - a[2]) * (p[1] - a[1])
            chord2 == (b[1] - a[1]) * (b[1] - a[1]) + (b[2] - a[2]) * (b[2] - a[2])
        IN  IF chord2 = 0 THEN p # a
            ELSE IF Abs(cross) >= 16384 THEN TRUE  \* chord2 < 2^29 <= 4 * cross^2
            ELSE 4 * cross * cross > chord2
      keep == {i \in 1..n : far(i)}
      pick[k \in 0..n] ==
        IF k = 0 THEN <<>>
        ELSE IF k \in keep THEN Append(pick[k - 1], contour[k]) ELSE pick[k - 1]
  IN  pick[n]

\* the transform with y left unscaled
TransformPointYUnscaled(p, bx, by, bh, target_height) ==
  LET d == Max(bh, 1)
  IN  <<Round((p[1] - bx) * target_height, d),
        target_height - (p[2] - by) + DESCENDER>>

\* vectorize.py 74-77: pixel -> design units, y flipped; scale = target / bh
TransformPoint(p, bx, by, bh, target_height) ==
  LET d == Max(bh, 1)
  IN  <<Round((p[1] - bx) * target_height, d),
        Round(target_height * d - (p[2] - by) * target_height + DESCENDER * d, d)>>

\* the winding step left out
FixWindingNone(transformed, is_hole) == transformed

\* vectorize.py 79-84: TrueType winding: outer area <= 0, hole area >= 0
FixWinding(transformed, is_hole) ==
  LET area2 == PolygonArea2(transformed)
  IN  IF (~is_hole /\ area2 > 0) \/ (is_hole /\ area2 < 0)
      THEN Reverse(transformed) ELSE transformed

\* vectorize.py 52-89: the loop body for contour i; <<>> when it is skipped
ContourCommand(contours, hole, i, bb, target_height) ==
  IF Len(contours[i]) < 3 THEN <<>>
  ELSE LET approx == ApproxPolyDP(contours[i])
       IN  IF Len(approx) < 3 THEN <<>>
           ELSE LET transformed ==
                      [k \in DOMAIN approx |->
                         TransformPoint(approx[k], bb.x, bb.y, bb.h, target_height)]
                IN  <<[points  |-> FixWinding(transformed, hole[i]),
                       is_hole |-> hole[i]]>>

\* vectorize.py 24-91: contours_to_font_paths
ContoursToFontPaths(contours, hole) ==
  IF contours = <<>> THEN <<>>
  ELSE LET bb == BoundingRect(AllPoints(contours))
           target_height == ASCENDER - DESCENDER
           cmds[i \in 0..Len(contours)] ==
             IF i = 0 THEN <<>>
             ELSE cmds[i - 1] \o ContourCommand(contours, hole, i, bb, target_height)
       IN  IF bb.w = 0 \/ bb.h = 0 THEN <<>> ELSE cmds[Len(contours)]

\* vectorize.py 149-150: raw_width = round(bw * scale)
RawWidth(bw, bh) == Round(bw * (ASCENDER - DESCENDER), Max(bh, 1))

\* vectorize.py 150: bearing = round(raw_width * 0.12)
Bearing(raw_width) == Round(raw_width * 12, 100)

\* the shift by the left bearing left out
ShiftPathsNone(paths, bearing) == paths

\* vectorize.py 153-155: shift all paths right by the left bearing
ShiftPaths(paths, bearing) ==
  [i \in DOMAIN paths |->
     [points  |-> [k \in DOMAIN paths[i].points |->
                     <<paths[i].points[k][1] + bearing, paths[i].points[k][2]>>],
      is_hole |-> paths[i].is_hole]]

\* vectorize.py 125-161: process_glyph_bitmap
ProcessGlyphBitmap(binary) ==
  IF binary.contours = <<>>
  THEN [paths |-> <<>>, advance_width |-> Round(UNITS_PER_EM * 5, 10), lsb |-> 0]
  ELSE LET paths == ContoursToFontPaths(binary.contours, binary.hole)
           bb == BoundingRect(AllPoints(binary.contours))
           raw_width == RawWidth(bb.w, bb.h)
           bearing == Bearing(raw_width)
       IN  [paths         |-> ShiftPaths(paths, bearing),
            advance_width |-> raw_width + bearing * 2,
            lsb           |-> bearing]

\* fontgen.py 159-163: vectorize every bitmap, keep those with paths
RECURSIVE VectorizeAll(_, _)
VectorizeAll(char_bitmaps, i) ==
  IF i > Len(char_bitmaps) THEN <<>>
  ELSE LET glyph_data == ProcessGlyphBitmap(char_bitmaps[i].bitmap)
           rest == VectorizeAll(char_bitmaps, i + 1)
       IN  IF glyph_data.paths # <<>>
           THEN <<[char |-> char_bitmaps[i].char, data |-> glyph_data]>> \o rest
           ELSE rest

\* create_font_from_chars without the paths filter and the empty check
RECURSIVE KeepAll(_, _)
KeepAll(char_bitmaps, i) ==
  IF i > Len(char_bitmaps) THEN <<>>
  ELSE <<[char |-> char_bitmaps[i].char,
          data |-> ProcessGlyphBitmap(char_bitmaps[i].bitmap)]>>
         \o KeepAll(char_bitmaps, i + 1)

CreateFontFromCharsUnchecked(char_bitmaps) == CreateFont(KeepAll(char_bitmaps, 1))

\* fontgen.py 145-168: create_font_from_chars
CreateFontFromChars(char_bitmaps) ==
  LET glyphs == VectorizeAll(char_bitmaps, 1)
  IN  IF glyphs = <<>>
      THEN Raised("ValueError",
                  "No valid glyphs could be extracted from the provided images")
      ELSE CreateFont(glyphs)

(***************************************************************************)
(* Segmenter (pipeline/segment.py)                                          *)
(*                                                                          *)
(* A page mask is held as [shape, boxes]: shape = <<rows, cols>> and boxes  *)
(* the cv2.boundingRect [x, y, w, h] of each external contour, in the       *)
(* order findContours lists them.  A crop binary[y1:y2, x1:x2] is held as   *)
(* its rectangle.                                                           *)
(***************************************************************************)
\* the indices of keys in ascending key order, ties in input order
\* (Python's sort is stable)
StableOrder(keys) ==
  LET step[n \in 0..Len(keys)] ==
        IF n = 0 THEN <<>>
        ELSE LET acc == step[n - 1]
                 k == Cardinality({i \in DOMAIN acc : keys[acc[i]] <= keys[n]})
             IN  SubSeq(acc, 1, k) \o <<n>> \o SubSeq(acc, k + 1, Len(acc))
  IN  step[Len(keys)]

\* sorted(heights)[len(heights) // 2]
MedianHeight(boxes) ==
  LET heights == [i \in DOMAIN boxes |-> boxes[i].h]
      order == StableOrder(heights)
  IN  heights[order[(Len(boxes) \div 2) + 1]]

\* the noise filter with >= for >
KeepBoxFrom5(b) == b.w >= 5 /\ b.h >= 5

\* segment.py 34: filter tiny noise
KeepBox(b) == b.w > 5 /\ b.h > 5

\* segment.py 109: is_small = h1 < median_h * 0.4 and w1 < median_h * 0.4
IsSmall(b, median_h) == 10 * b.h < 4 * median_h /\ 10 * b.w < 4 * median_h

\* segment.py 119-121: j may be the parent of i (below it, centres within w2,
\* gap under 0.8 * median_h)
Qualifies(b1, b2, median_h) ==
  /\ b2.y > b1.y
  /\ Abs((2 * b1.x + b1.w) - (2 * b2.x + b2.w)) < 2 * b2.w
  /\ 10 * (b2.y - (b1.y + b1.h)) < 8 * median_h

\* segment.py 113-123: the first candidate, in y order, of least gap
BestParent(boxes, order, i, used, median_h) ==
  LET dist(j) == boxes[j].y - (boxes[i].y + boxes[i].h)
      cand == {k \in DOMAIN order :
                 /\ order[k] # i
                 /\ order[k] \notin used
                 /\ Qualifies(boxes[i], boxes[order[k]], median_h)}
  IN  IF cand = {} THEN 0
      ELSE order[CHOOSE k \in cand :
                   \A m \in cand : \/ dist(order[k]) < dist(order[m])
                                   \/ (dist(order[k]) = dist(order[m]) /\ k <= m)]

\* segment.py 126-132: bounding box encompassing both
UnionBox(a, b) ==
  LET mx == Min(a.x, b.x)
      my == Min(a.y, b.y)
      mx2 == Max(a.x + a.w, b.x + b.w)
      my2 == Max(a.y + a.h, b.y + b.h)
  IN  [x |-> mx, y |-> my, w |-> mx2 - mx, h |-> my2 - my]

\* the merge loop with the parent left free to be used again
RECURSIVE MergeLoopParentKept(_, _, _, _, _, _)
MergeLoopParentKept(boxes, order, pos, merged, used, median_h) ==
  IF pos > Len(order) THEN merged
  ELSE LET i == order[pos]
           parent == IF IsSmall(boxes[i], median_h)
                     THEN BestParent(boxes, order, i, used, median_h) ELSE 0
       IN  IF i \in used
           THEN MergeLoopParentKept(boxes, order, pos + 1, merged, used,
                                    median_h)
           ELSE IF parent # 0
           THEN MergeLoopParentKept(boxes, order, pos + 1,
                                    Append(merged,
                                           UnionBox(boxes[i], boxes[parent])),
                                    used \cup {i}, median_h)
           ELSE MergeLoopParentKept(boxes, order, pos + 1,
                                    Append(merged, boxes[i]), used \cup {i},
                                    median_h)

\* segment.py 104-139: the merge loop from position pos of the y-sorted list
RECURSIVE MergeLoop(_, _, _, _, _, _)
MergeLoop(boxes, order, pos, merged, used, median_h) ==
  IF pos > Len(order) THEN merged
  ELSE LET i == order[pos]
           parent == IF IsSmall(boxes[i], median_h)
                     THEN BestParent(boxes, order, i, used, median_h) ELSE 0
       IN  IF i \in used
           THEN MergeLoop(boxes, order, pos + 1, merged, used, median_h)
           ELSE IF parent # 0
           THEN MergeLoop(boxes, order, pos + 1,
                          Append(merged, UnionBox(boxes[i], boxes[parent])),
                          used \cup {i, parent}, median_h)
           ELSE MergeLoop(boxes, order, pos + 1, Append(merged, boxes[i]),
                          used \cup {i}, median_h)

\* segment.py 79-141: merge_close_bboxes
MergeCloseBboxes(boxes) ==
  IF boxes = <<>> THEN boxes
  ELSE MergeLoop(boxes, StableOrder([i \in DOMAIN boxes |-> boxes[i].y]), 1,
                 <<>>, {}, MedianHeight(boxes))

\* the grouping with each box measured against the box before it
RECURSIVE GroupLinesChained(_, _, _, _, _, _)
GroupLinesChained(sorted_by_y, pos, lines, current_line, current_y, median_h) ==
  IF pos > Len(sorted_by_y) THEN Append(lines, current_line)
  ELSE LET bbox == sorted_by_y[pos]
       IN  IF 2 * Abs(bbox.y - current_y) < median_h
           THEN GroupLinesChained(sorted_by_y, pos + 1, lines,
                                  Append(current_line, bbox), bbox.y, median_h)
           ELSE GroupLinesChained(sorted_by_y, pos + 1,
                                  Append(lines, current_line), <<bbox>>, bbox.y,
                                  median_h)

\* segment.py 163-174: group the y-sorted boxes into lines
RECURSIVE GroupLines(_, _, _, _, _, _)
GroupLines(sorted_by_y, pos, lines, current_line, current_y, median_h) ==
  IF pos > Len(sorted_by_y) THEN Append(lines, current_line)
  ELSE LET bbox == sorted_by_y[pos]
       IN  IF 2 * Abs(bbox.y - current_y) < median_h
           THEN GroupLines(sorted_by_y, pos + 1, lines,
                           Append(current_line, bbox), current_y, median_h)
           ELSE GroupLines(sorted_by_y, pos + 1, Append(lines, current_line),
                           <<bbox>>, bbox.y, median_h)

\* segment.py 179: line.sort(key=lambda b: b[0])
SortLine(line) ==
  LET order == StableOrder([i \in DOMAIN line |-> line[i].x])
  IN  [k \in DOMAIN line |-> line[order[k]]]

\* segment.py 144-182: sort_reading_order
SortReadingOrder(bboxes) ==
  IF bboxes = <<>> THEN bboxes
  ELSE LET median_h == MedianHeight(bboxes)
           order == StableOrder([i \in DOMAIN bboxes |-> bboxes[i].y])
           sorted_by_y == [k \in DOMAIN bboxes |-> bboxes[order[k]]]
           lines == GroupLines(sorted_by_y, 2, <<>>, <<sorted_by_y[1]>>,
                               sorted_by_y[1].y, median_h)
           flat[n \in 0..Len(lines)] ==
             IF n = 0 THEN <<>> ELSE flat[n - 1] \o SortLine(lines[n])
       IN  flat[Len(lines)]

\* segment.py 47-50: the lowercased alphabetic characters of the pangram
PangramChars(pangram) ==
  LET lowered == [i \in DOMAIN pangram |-> Lower(pangram[i])]
  IN  SelectSeq(lowered, IsAlpha)

\* segment.py 64-69: the crop of a box, padded by 4 and clamped to the mask
Crop(shape, b) ==
  LET pad == 4
  IN  [y1 |-> Max(0, b.y - pad), y2 |-> Min(shape[1], b.y + b.h + pad),
       x1 |-> Max(0, b.x - pad), x2 |-> Min(shape[2], b.x + b.w + pad)]

\* the pairing loop with a later occurrence overwriting the first
RECURSIVE PairLoopLastWins(_, _, _, _, _, _)
PairLoopLastWins(shape, sorted_bboxes, pangram_chars, i, results, seen_chars) ==
  IF i > Len(sorted_bboxes) \/ i > Len(pangram_chars) THEN results
  ELSE LET char == pangram_chars[i]
           entry == [char |-> char, bitmap |-> Crop(shape, sorted_bboxes[i])]
       IN  IF char \notin seen_chars
           THEN PairLoopLastWins(shape, sorted_bboxes, pangram_chars, i + 1,
                                 Append(results, entry), seen_chars \cup {char})
           ELSE PairLoopLastWins(shape, sorted_bboxes, pangram_chars, i + 1,
                                 [k \in DOMAIN results |->
                                    IF results[k].char = char THEN entry
                                    ELSE results[k]],
                                 seen_chars)

\* segment.py 57-74: pair box i with letter i, keep each letter's first crop
RECURSIVE PairLoop(_, _, _, _, _, _)
PairLoop(shape, sorted_bboxes, pangram_chars, i, results, seen_chars) ==
  IF i > Len(sorted_bboxes) \/ i > Len(pangram_chars) THEN results
  ELSE LET char == pangram_chars[i]
           cropped == Crop(shape, sorted_bboxes[i])
       IN  IF char \notin seen_chars
           THEN PairLoop(shape, sorted_bboxes, pangram_chars, i + 1,
                         Append(results, [char |-> char, bitmap |-> cropped]),
                         seen_chars \cup {char})
           ELSE PairLoop(shape, sorted_bboxes, pangram_chars, i + 1,
                         results, seen_chars)

\* segment.py 41-44: the boxes in reading order
SortedBboxes(bboxes) == SortReadingOrder(MergeCloseBboxes(bboxes))

\* segment.py 7-76: segment_characters
SegmentCharacters(binary, pangram) ==
  IF binary.boxes = <<>>
  THEN Raised("ValueError", "No characters found in image")
  ELSE LET bboxes == SelectSeq(binary.boxes, KeepBox)
       IN  IF bboxes = <<>>
           THEN Raised("ValueError", "No valid character regions found")
           ELSE [status  |-> "ok",
                 results |-> PairLoop(binary.shape, SortedBboxes(bboxes),
                                      PangramChars(pangram), 1, <<>>, {})]

(***************************************************************************)
(* Single-glyph extractor (pipeline/segment.py)                             *)
(*                                                                          *)
(* A drawn mask is held as [rows, cols, fg]: fg the set of <<x, y>> of its  *)
(* non-zero pixels (what cv2.findNonZero lists).                            *)
(***************************************************************************)
\* extract_single_glyph pasting the crop at the fixed offset (10, 10)
ExtractSingleGlyphTopLeft(binary) ==
  IF binary.fg = {} THEN binary
  ELSE LET bb == BoundingRect(binary.fg)
           size == Max(bb.w, bb.h) + 20
       IN  [rows |-> size, cols |-> size,
            fg   |-> {<<p[1] - bb.x + 10, p[2] - bb.y + 10>> : p \in binary.fg}]

\* segment.py 185-205: extract_single_glyph
ExtractSingleGlyph(binary) ==
  IF binary.fg = {} THEN binary
  ELSE LET bb == BoundingRect(binary.fg)
           size == Max(bb.w, bb.h) + 20
           ox == (size - bb.w) \div 2
           oy == (size - bb.h) \div 2
       IN  [rows |-> size, cols |-> size,
            fg   |-> {<<p[1] - bb.x + ox, p[2] - bb.y + oy>> : p \in binary.fg}]

(***************************************************************************)
(* Endpoints (main.py)                                                      *)
(*                                                                          *)
(* Uploaded bytes are held as [decodes, mask]: whether cv2.imdecode reads   *)
(* them and the mask binarization makes of the image.  A photo's mask is    *)
(* [shape, boxes, ink]: ink[i] tells how region i is drawn, "solid" (the    *)
(* filled rectangle of its box) or "stroke" (a 1-pixel diagonal from the    *)
(* box's top-left to its bottom-right corner; such boxes are square).       *)
(* findContours reports a filled rectangle as its four corners and a        *)
(* 1-pixel line as its two ends.                                            *)
(*                                                                          *)
(* The two font endpoints are modelled stage by stage; a request under way  *)
(* keeps its frame in ret: pc the stage to run next, ran the stages entered *)
(* so far, val the value the last stage handed on, response the reply.      *)
(***************************************************************************)
\* the contour of the filled rectangle with corner pixels (x0, y0), (x1, y1)
RectContour(x0, y0, x1, y1) ==
  IF x0 = x1 /\ y0 = y1 THEN << <<x0, y0>> >>
  ELSE IF x0 = x1 \/ y0 = y1 THEN << <<x0, y0>>, <<x1, y1>> >>
  ELSE << <<x0, y0>>, <<x0, y1>>, <<x1, y1>>, <<x1, y0>> >>

\* vectorize.py 13-21: findContours on a drawn mask whose ink is one filled
\* rectangle, or none
TraceMask(binary) ==
  IF binary.fg = {} THEN [contours |-> <<>>, hole |-> <<>>]
  ELSE LET bb == BoundingRect(binary.fg)
       IN  [contours |-> <<RectContour(bb.x, bb.y, bb.x + bb.w - 1,
                                       bb.y + bb.h - 1)>>,
            hole |-> <<FALSE>>]

\* the contours region i leaves in the crop rect of a page, in the crop's
\* coordinates: the part of the rectangle, or of the diagonal, inside it
RegionContours(binary, i, rect) ==
  LET b == binary.boxes[i]
      x0 == Max(b.x, rect.x1)
      y0 == Max(b.y, rect.y1)
      x1 == Min(b.x + b.w, rect.x2) - 1
      y1 == Min(b.y + b.h, rect.y2) - 1
      t0 == Max(x0 - b.x, y0 - b.y)
      t1 == Min(x1 - b.x, y1 - b.y)
  IN  IF x0 > x1 \/ y0 > y1 THEN <<>>
      ELSE IF binary.ink[i] = "solid"
      THEN <<RectContour(x0 - rect.x1, y0 - rect.y1,
                         x1 - rect.x1, y1 - rect.y1)>>
      ELSE IF t0 > t1 THEN <<>>
      ELSE IF t0 = t1
      THEN << << <<b.x + t0 - rect.x1, b.y + t0 - rect.y1>> >> >>
      ELSE << << <<b.x + t0 - rect.x1, b.y + t0 - rect.y1>>,
                 <<b.x + t1 - rect.x1, b.y + t1 - rect.y1>> >> >>

\* vectorize.py 13-21: findContours on the crop binary[y1:y2, x1:x2]
TraceCrop(binary, rect) ==
  LET all[i \in 0..Len(binary.boxes)] ==
        IF i = 0 THEN <<>> ELSE all[i - 1] \o RegionContours(binary, i, rect)
      contours == all[Len(binary.boxes)]
  IN  [contours |-> contours, hole |-> [k \in DOMAIN contours |-> FALSE]]

\* preprocess.py 9-15: load_image_from_bytes
LoadImageFromBytes(data) ==
  IF data.decodes THEN [status |-> "ok", img |-> data]
  ELSE Raised("ValueError", "Could not decode image data")

\* preprocess.py 18-49: preprocess, the mask of the image
Preprocess(img) == img.mask

\* a request under way, about to run stage pc
Frame(pc, ran, val) ==
  [pc |-> pc, ran |-> ran, val |-> val, response |-> <<>>]

\* a request that has ended with response
Finished(ran, response) ==
  [pc |-> "done", ran |-> ran, val |-> <<>>, response |-> response]

\* main.py 52-56: read and decode the upload
DecodeStage(request, frame) ==
  LET ran == Append(frame.ran, "decode")
      r == LoadImageFromBytes(request.image)
  IN  IF r.status = "error"
      THEN Finished(ran, Raised("HTTP400", "Invalid image"))
      ELSE Frame("binarize", ran, r.img)

\* main.py 58-61: binarize; cv_raises tells whether OpenCV raised
BinarizeStage(frame, cv_raises) ==
  LET ran == Append(frame.ran, "binarize")
  IN  IF cv_raises
      THEN Finished(ran, Raised("HTTP422", "Image preprocessing failed"))
      ELSE Frame("segment", ran, Preprocess(frame.val))

\* main.py 78: the char -> bitmap mapping, each crop held as its contours
CharBitmaps(binary, char_pairs) ==
  [i \in DOMAIN char_pairs |->
     [char |-> char_pairs[i].char,
      bitmap |-> TraceCrop(binary, char_pairs[i].bitmap)]]

\* the segment stage without the check for an empty result
SegmentStageUnchecked(request, frame) ==
  LET ran == Append(frame.ran, "segment")
      r == SegmentCharacters(frame.val, request.pangram)
  IN  IF r.status = "error"
      THEN Finished(ran, Raised("HTTP422", "Character segmentation failed"))
      ELSE Frame("font", ran, CharBitmaps(frame.val, r.results))

\* main.py 63-78: segment, and stop on an empty result
SegmentStage(request, frame) ==
  LET ran == Append(frame.ran, "segment")
      r == SegmentCharacters(frame.val, request.pangram)
  IN  IF r.status = "error"
      THEN Finished(ran, Raised("HTTP422", "Character segmentation failed"))
      ELSE IF r.results = <<>>
      THEN Finished(ran, Raised("HTTP422", "No characters could be segmented"))
      ELSE Frame("font", ran, CharBitmaps(frame.val, r.results))

\* main.py 85-92 and 145-152: the reply; a binary stands for its base64 text
FontResponse(fonts, char_bitmaps) ==
  [status      |-> "ok",
   ttf         |-> fonts.ttf,
   woff2       |-> fonts.woff2,
   chars_found |-> Keys(char_bitmaps),
   total_chars |-> Len(char_bitmaps)]

\* main.py 80-92 and 140-152: vectorize, assemble and reply
FontStage(frame) ==
  LET ran == Append(frame.ran, "font")
      r == CreateFontFromChars(frame.val)
  IN  IF r.status = "error"
      THEN Finished(ran, Raised("HTTP500", "Font generation failed"))
      ELSE Finished(ran, FontResponse(r, frame.val))

\* char_bitmaps[char] = binary on a dict held as a sequence of entries
SetItem(char_bitmaps, char, binary) ==
  IF \E i \in DOMAIN char_bitmaps : char_bitmaps[i].char = char
  THEN [i \in DOMAIN char_bitmaps |->
          IF char_bitmaps[i].char = char
          THEN [char |-> char, bitmap |-> binary] ELSE char_bitmaps[i]]
  ELSE Append(char_bitmaps, [char |-> char, bitmap |-> binary])

\* main.py 127-135: collect the char_X fields of the form from field i on; a
\* key is held as the sequence of its characters
RECURSIVE CollectFields(_, _, _)
CollectFields(form, i, char_bitmaps) ==
  IF i > Len(form) THEN [status |-> "ok", char_bitmaps |-> char_bitmaps]
  ELSE LET key == form[i].key
           value == form[i].value
       IN  IF /\ Len(key) = 6
              /\ SubSeq(key, 1, 5) = <<"c", "h", "a", "r", "_">>
              /\ IsAlpha(Lower(key[6]))
           THEN LET img == LoadImageFromBytes(value)
                IN  IF img.status = "error" THEN img
                    ELSE CollectFields(
                           form, i + 1,
                           SetItem(char_bitmaps, Lower(key[6]),
                                   TraceMask(ExtractSingleGlyph(
                                               Preprocess(img.img)))))
           ELSE CollectFields(form, i + 1, char_bitmaps)

\* main.py 124-138: process_drawn_glyphs up to the font stage; an exception
\* of the collecting loop is not caught and leaves the handler as it is
CollectStage(form) ==
  LET collected == CollectFields(form, 1, <<>>)
  IN  IF collected.status = "error" THEN Finished(<<"collect">>, collected)
      ELSE IF collected.char_bitmaps = <<>>
      THEN Finished(<<"collect">>,
                    Raised("HTTP400", "No valid character images provided"))
      ELSE Frame("font", <<"collect">>, collected.char_bitmaps)

(***************************************************************************)
(* Inputs                                                                   *)
(***************************************************************************)
MaxGlyphs == 2

MaxPts == 4

MaxBoxes == 4

MaxCols == 3

MaxRows == 3

\* the keys a glyphs mapping may carry
FontKeys == {"a", "A", "b"}

Pt(x, y) == <<x, y>>

Path(points, is_hole) == [points |-> points, is_hole |-> is_hole]

\* glyph records as the /api/generate-font caller may send them: no paths,
\* one triangle, a triangle with a 2-point stray path, only a 2-point path
GlyphPool ==
  { [paths |-> <<>>, advance_width |-> 500, lsb |-> 0],
    [paths |-> <<Path(<<Pt(60, 800), Pt(560, 800), Pt(60, -200)>>, FALSE)>>,
     advance_width |-> 620, lsb |-> 60],
    [paths |-> <<Path(<<Pt(0, 0), Pt(10, 10)>>, FALSE),
                 Path(<<Pt(12, 800), Pt(112, -200), Pt(12, -200)>>, FALSE)>>,
     advance_width |-> 124, lsb |-> 12],
    [paths |-> <<Path(<<Pt(0, 0), Pt(10, 10)>>, FALSE)>>,
     advance_width |-> 10, lsb |-> 0] }

\* dicts over keys K with values V, up to n entries, in every insertion order
Dicts(K, V, n) ==
  {d \in SeqsBetween(K \X V, 0, n) : Injective([i \in DOMAIN d |-> d[i][1]])}

\* glyphs mappings of up to n entries
GlyphMaps(n) ==
  {[i \in DOMAIN d |-> [char |-> d[i][1], data |-> d[i][2]]] :
     d \in Dicts(FontKeys, GlyphPool, n)}

\* pixel coordinates the traced contours run through
GridX == {0, 1, 199}

GridY == {0, 199, 1999}

\* findContours starts a contour at the first of its pixels in raster order
RasterFirst(c) ==
  \A i \in DOMAIN c :
    c[1][2] < c[i][2] \/ (c[1][2] = c[i][2] /\ c[1][1] <= c[i][1])

\* an outer contour: 2..n distinct vertices, from the raster-first one
OuterContours(n) ==
  {c \in SeqsBetween(GridX \X GridY, 2, n) : Injective(c) /\ RasterFirst(c)}

\* a hole contour, in both orientations
HoleContours ==
  { <<Pt(1, 1), Pt(1, 100), Pt(100, 100)>>,
    <<Pt(1, 1), Pt(100, 100), Pt(1, 100)>>,
    <<Pt(50, 20), Pt(60, 20), Pt(60, 30), Pt(50, 30)>>,
    <<Pt(50, 20), Pt(50, 30), Pt(60, 30), Pt(60, 20)>> }

BlankBitmap == [contours |-> <<>>, hole |-> <<>>]

\* glyph bitmaps: no ink, one region, one region with a hole
GlyphBitmaps(n) ==
  {BlankBitmap}
    \cup {[contours |-> <<c>>, hole |-> <<FALSE>>] : c \in OuterContours(n)}
    \cup {[contours |-> <<c, h>>, hole |-> <<FALSE, TRUE>>] :
            c \in OuterContours(n), h \in HoleContours}

\* the bitmaps create_font_from_chars is tried on: no ink, a 1-pixel-wide
\* stroke, a filled 200 x 200 square, a ring
BitmapPool ==
  { BlankBitmap,
    [contours |-> <<<<Pt(0, 0), Pt(0, 199)>>>>, hole |-> <<FALSE>>],
    [contours |-> <<<<Pt(0, 0), Pt(0, 199), Pt(199, 199), Pt(199, 0)>>>>,
     hole |-> <<FALSE>>],
    [contours |-> <<<<Pt(0, 0), Pt(0, 199), Pt(199, 199), Pt(199, 0)>>,
                    <<Pt(50, 20), Pt(60, 20), Pt(60, 30), Pt(50, 30)>>>>,
     hole |-> <<FALSE, TRUE>>] }

\* char_bitmaps mappings of up to n entries
CharBitmapMaps(n) ==
  {[i \in DOMAIN d |-> [char |-> d[i][1], bitmap |-> d[i][2]]] :
     d \in Dicts(FontKeys, BitmapPool, n)}

Box(x, y, w, h) == [x |-> x, y |-> y, w |-> w, h |-> h]

\* the page the segmenter is tried on: 240 rows, 64 columns
PageShape == <<240, 64>>

\* regions of the page: four letters on two lines, a dot over the first, a
\* 6 x 6 and a 5 x 5 speck, a letter hanging half a line below the first
BoxPool ==
  { Box(10, 10, 20, 30), Box(40, 12, 20, 30),
    Box(10, 200, 20, 30), Box(40, 198, 20, 30),
    Box(14, 0, 8, 8), Box(2, 100, 6, 6), Box(50, 100, 5, 5),
    Box(12, 26, 16, 30) }

\* lists of up to n regions, in any order, no region listed twice
BoxLists(pool, n) == {b \in SeqsBetween(pool, 0, n) : Injective(b)}

\* pages of up to n detected regions
PageMasks(n) ==
  {[shape |-> PageShape, boxes |-> b] : b \in BoxLists(BoxPool, n)}

\* the lists the two box passes are tried on: regions that passed the noise
\* filter, with a second dot beside the first
PassPool == {b \in BoxPool : KeepBox(b)} \cup {Box(22, 2, 7, 7)}

PhrasePool ==
  { <<"a", "a", "b">>, <<"A", "b", " ", "a", "b">>, <<"1", " ">>,
    <<"a", "b", " ", "c", "d">> }

\* drawn masks: every set of foreground pixels of a cols x rows canvas
DrawnMasks(cols, rows) ==
  {[rows |-> rows, cols |-> cols, fg |-> f] :
     f \in SUBSET ((0..(cols - 1)) \X (0..(rows - 1)))}

MaxRegions == 2

MaxFields == 2

Region(b, ink) == [box |-> b, ink |-> ink]

\* regions of a photographed page: two letters, a dot over the first, a
\* diagonal hairline of 60 pixels, a 5-wide speck
RegionPool ==
  { Region(Box(10, 10, 20, 30), "solid"), Region(Box(40, 12, 20, 30), "solid"),
    Region(Box(14, 0, 8, 8), "solid"), Region(Box(2, 100, 60, 60), "stroke"),
    Region(Box(50, 60, 5, 10), "solid") }

\* uploads: bytes that do not decode, and photos of up to n regions
Photos(n) ==
  {[decodes |-> FALSE, mask |-> <<>>]}
    \cup {[decodes |-> TRUE,
           mask |-> [shape |-> PageShape,
                     boxes |-> [i \in DOMAIN r |-> r[i].box],
                     ink   |-> [i \in DOMAIN r |-> r[i].ink]]] :
            r \in BoxLists(RegionPool, n)}

\* drawings: bytes that do not decode, an empty canvas, a 1-pixel column, a
\* filled block
DrawnImages ==
  { [decodes |-> FALSE, mask |-> <<>>],
    [decodes |-> TRUE, mask |-> [rows |-> 3, cols |-> 3, fg |-> {}]],
    [decodes |-> TRUE,
     mask |-> [rows |-> 3, cols |-> 3, fg |-> {<<1, 0>>, <<1, 1>>, <<1, 2>>}]],
    [decodes |-> TRUE,
     mask |-> [rows |-> 3, cols |-> 3, fg |-> (0..1) \X (0..2)]] }

\* the key "char_" + c
CharKey(c) == <<"c", "h", "a", "r", "_", c>>

\* form keys: char_a, char_A, char_b, char_1, char_ab, file
KeyPool ==
  { CharKey("a"), CharKey("A"), CharKey("b"), CharKey("1"),
    <<"c", "h", "a", "r", "_", "a", "b">>, <<"f", "i", "l", "e">> }

\* forms of up to n fields with distinct keys
Forms(n) ==
  LET fields == {[key |-> k, value |-> v] : k \in KeyPool, v \in DrawnImages}
  IN  {f \in SeqsBetween(fields, 0, n) :
         Injective([i \in DOMAIN f |-> f[i].key])}

(***************************************************************************)
(* The calls                                                                *)
(***************************************************************************)
Init ==
  /\ call = "idle"
  /\ arg = <<>>
  /\ ret = <<>>

\* pipeline/fontgen.py create_font(glyphs)
CreateFontCall ==
  /\ call = "idle"
  /\ \E glyphs \in GlyphMaps(MaxGlyphs) :
       /\ call' = "create_font"
       /\ arg' = glyphs
       /\ ret' = CreateFont(glyphs)

\* main.py POST /api/generate-font
GenerateFontCall ==
  /\ call = "idle"
  /\ \E glyphs \in GlyphMaps(MaxGlyphs) :
       /\ call' = "generate_font_endpoint"
       /\ arg' = glyphs
       /\ ret' = GenerateFontEndpoint(glyphs)

\* pipeline/fontgen.py create_font_from_chars(char_bitmaps)
CreateFontFromCharsCall ==
  /\ call = "idle"
  /\ \E char_bitmaps \in CharBitmapMaps(MaxGlyphs) :
       /\ call' = "create_font_from_chars"
       /\ arg' = char_bitmaps
       /\ ret' = CreateFontFromChars(char_bitmaps)

\* pipeline/vectorize.py process_glyph_bitmap(binary)
ProcessGlyphBitmapCall ==
  /\ call = "idle"
  /\ \E binary \in GlyphBitmaps(MaxPts) :
       /\ call' = "process_glyph_bitmap"
       /\ arg' = binary
       /\ ret' = ProcessGlyphBitmap(binary)

\* pipeline/segment.py segment_characters(binary, pangram)
SegmentCharactersCall ==
  /\ call = "idle"
  /\ \E binary \in PageMasks(MaxBoxes), pangram \in PhrasePool :
       /\ call' = "segment_characters"
       /\ arg' = [binary |-> binary, pangram |-> pangram]
       /\ ret' = SegmentCharacters(binary, pangram)

\* pipeline/segment.py merge_close_bboxes(bboxes, binary)
MergeCloseBboxesCall ==
  /\ call = "idle"
  /\ \E bboxes \in BoxLists(PassPool, MaxBoxes) :
       /\ call' = "merge_close_bboxes"
       /\ arg' = bboxes
       /\ ret' = MergeCloseBboxes(bboxes)

\* pipeline/segment.py sort_reading_order(bboxes, img_height), on a merged list
SortReadingOrderCall ==
  /\ call = "idle"
  /\ \E bboxes \in BoxLists(PassPool, MaxBoxes) :
       /\ call' = "sort_reading_order"
       /\ arg' = MergeCloseBboxes(bboxes)
       /\ ret' = SortReadingOrder(arg')

\* pipeline/segment.py extract_single_glyph(binary)
ExtractSingleGlyphCall ==
  /\ call = "idle"
  /\ \E binary \in DrawnMasks(MaxCols, MaxRows) :
       /\ call' = "extract_single_glyph"
       /\ arg' = binary
       /\ ret' = ExtractSingleGlyph(binary)

\* main.py POST /api/process-pangram: the request arrives
ProcessPangramCall ==
  /\ call = "idle"
  /\ \E image \in Photos(MaxRegions), pangram \in PhrasePool :
       /\ call' = "process_pangram"
       /\ arg' = [image |-> image, pangram |-> pangram]
       /\ ret' = Frame("decode", <<>>, <<>>)

\* process_pangram: the decode stage
Decode ==
  /\ call = "process_pangram"
  /\ ret.pc = "decode"
  /\ ret' = DecodeStage(arg, ret)
  /\ UNCHANGED <<call, arg>>

\* process_pangram: the binarize stage
Binarize ==
  /\ call = "process_pangram"
  /\ ret.pc = "binarize"
  /\ \E cv_raises \in BOOLEAN : ret' = BinarizeStage(ret, cv_raises)
  /\ UNCHANGED <<call, arg>>

\* process_pangram: the segment stage
Segment ==
  /\ call = "process_pangram"
  /\ ret.pc = "segment"
  /\ ret' = SegmentStage(arg, ret)
  /\ UNCHANGED <<call, arg>>

\* process_pangram, process_drawn_glyphs: the vectorize-and-assemble stage
BuildFont ==
  /\ call \in {"process_pangram", "process_drawn_glyphs"}
  /\ ret.pc = "font"
  /\ ret' = FontStage(ret)
  /\ UNCHANGED <<call, arg>>

\* main.py POST /api/process-drawn-glyphs: the request arrives and its fields
\* are collected
ProcessDrawnGlyphsCall ==
  /\ call = "idle"
  /\ \E form \in Forms(MaxFields) :
       /\ call' = "process_drawn_glyphs"
       /\ arg' = form
       /\ ret' = CollectStage(form)

\* the call has returned (or raised); nothing of it is kept
Respond ==
  /\ call # "idle"
  /\ call \in {"process_pangram", "process_drawn_glyphs"} => ret.pc = "done"
  /\ call' = "idle"
  /\ arg' = <<>>
  /\ ret' = <<>>

NextFont == CreateFontCall \/ GenerateFontCall \/ CreateFontFromCharsCall \/ Respond

NextVector == ProcessGlyphBitmapCall \/ Respond

NextSegment ==
  SegmentCharactersCall \/ MergeCloseBboxesCall \/ SortReadingOrderCall \/ Respond

NextExtract == ExtractSingleGlyphCall \/ Respond

NextEndpoint ==
  \/ ProcessPangramCall \/ Decode \/ Binarize \/ Segment \/ BuildFont
  \/ ProcessDrawnGlyphsCall \/ Respond

Next == NextFont \/ NextVector \/ NextSegment \/ NextExtract \/ NextEndpoint

SpecFont == Init /\ [][NextFont]_vars

SpecVector == Init /\ [][NextVector]_vars

SpecSegment == Init /\ [][NextSegment]_vars

SpecExtract == Init /\ [][NextExtract]_vars

SpecEndpoint == Init /\ [][NextEndpoint]_vars

Spec == Init /\ [][Next]_vars

(***************************************************************************)
(* Claims                                                                   *)
(***************************************************************************)
FontOf(r) == r.ttf.font

\* C1: create_font called with an empty character-to-outline mapping fails
\* and returns no font binaries.
C1_EmptyMappingFails ==
  (call = "create_font" /\ arg = <<>>) => ret.status = "error"

\* the outline process_glyph_bitmap gives entry i of a char_bitmaps mapping
OutlineOf(char_bitmaps, i) == ProcessGlyphBitmap(char_bitmaps[i].bitmap)

\* C2: create_font_from_chars fails when no character keeps a vectorized
\* outline with paths, and a font it returns (both binaries) holds, for at
\* least one supplied character, a glyph with a non-empty outline.
C2_NoFontWithoutContent ==
  call = "create_font_from_chars" =>
    /\ (\A i \in DOMAIN arg : OutlineOf(arg, i).paths = <<>>)
         => ret.status = "error"
    /\ ret.status = "ok" =>
         \A bin \in {ret.ttf, ret.woff2} :
           \E i \in DOMAIN arg :
             /\ GlyphName(arg[i].char) \in DOMAIN bin.font.glyf
             /\ bin.font.glyf[GlyphName(arg[i].char)] # <<>>

\* C2 witness: a font is returned although one supplied character was dropped
C2_Witness ==
  /\ call = "create_font_from_chars"
  /\ ret.status = "ok"
  /\ \E i \in DOMAIN arg : OutlineOf(arg, i).paths = <<>>

\* C3: in the cmap the assembler builds, for every supplied lowercase
\* character the uppercase code point maps to the same glyph as the
\* lowercase code point, whatever keys are supplied and in whatever order.
C3_UpperMapsLikeLower ==
  (call \in {"create_font", "generate_font_endpoint"} /\ ret.status = "ok") =>
    \A i \in DOMAIN arg :
      IsLower(arg[i].char) =>
        LET cmap == FontOf(ret).cmap
        IN  /\ Ord(arg[i].char) \in DOMAIN cmap
            /\ Ord(Upper(arg[i].char)) \in DOMAIN cmap
            /\ cmap[Ord(Upper(arg[i].char))] = cmap[Ord(arg[i].char)]

\* the boxes and letters segment_characters pairs for the call in arg
SegBoxes == SortedBboxes(SelectSeq(arg.binary.boxes, KeepBox))

SegLetters == PangramChars(arg.pangram)

SegPaired == Min(Len(SegBoxes), Len(SegLetters))

\* the indices, among the paired ones, at which a letter occurs first
FirstIndices ==
  {i \in 1..SegPaired : \A j \in 1..(i - 1) : SegLetters[j] # SegLetters[i]}

\* the k-th smallest element of a set of numbers
Nth(S, k) == CHOOSE i \in S : Cardinality({j \in S : j <= i}) = k

\* C4: segment pairs box i (reading order) with letter i of the phrase up
\* to the shorter list and keeps each letter's first occurrence: the result
\* lists exactly the distinct letters among the paired ones, in order of
\* first appearance, each with the crop of the box at its first index.
C4_FirstOccurrencePairing ==
  (call = "segment_characters" /\ ret.status = "ok") =>
    /\ Len(ret.results) = Cardinality(FirstIndices)
    /\ \A k \in DOMAIN ret.results :
         /\ ret.results[k].char = SegLetters[Nth(FirstIndices, k)]
         /\ ret.results[k].bitmap =
              Crop(arg.binary.shape, SegBoxes[Nth(FirstIndices, k)])
    /\ \A k, m \in DOMAIN ret.results :
         k # m => ret.results[k].char # ret.results[m].char

\* C4 witness: more letters than boxes, three pairs, one a repeated letter
C4_Witness ==
  /\ call = "segment_characters"
  /\ ret.status = "ok"
  /\ Len(SegBoxes) = 3
  /\ Len(SegLetters) > 3
  /\ Len(ret.results) = 2

\* C5 as stated: a 6 x 6 region is discarded by the noise filter, so when
\* it is the only detected region segment fails (or at least pairs it with
\* no character) instead of returning a character.
C5_SixBySixDiscarded ==
  ( /\ call = "segment_characters"
    /\ Len(arg.binary.boxes) = 1
    /\ arg.binary.boxes[1].w = 6
    /\ arg.binary.boxes[1].h = 6 )
    => (ret.status = "error" \/ ret.results = <<>>)

Tiny(b) == b.w <= 5 \/ b.h <= 5

\* C5 amended: a region at most 5 pixels wide or at most 5 high is always
\* discarded (no result carries its crop), and when every detected region
\* is such a region segment fails; a 6 x 6 region is kept, so alone it is
\* paired with the first letter of the phrase.
C5_TinyRegionDiscarded ==
  call = "segment_characters" =>
    LET boxes == arg.binary.boxes
    IN  /\ (boxes # <<>> /\ \A i \in DOMAIN boxes : Tiny(boxes[i]))
             => (ret.status = "error"
                 /\ ret.detail = "No valid character regions found")
        /\ ret.status = "ok" =>
             \A k \in DOMAIN ret.results : \A i \in DOMAIN boxes :
               Tiny(boxes[i]) =>
                 ret.results[k].bitmap # Crop(arg.binary.shape, boxes[i])
        /\ (Len(boxes) = 1 /\ boxes[1].w = 6 /\ boxes[1].h = 6
              /\ SegLetters # <<>>)
             => (ret.status = "ok" /\ Len(ret.results) = 1)

\* C5 witness: a 5 x 5 region alone, and segment has failed
C5_Witness ==
  /\ call = "segment_characters"
  /\ Len(arg.binary.boxes) = 1
  /\ arg.binary.boxes[1].w = 5
  /\ arg.binary.boxes[1].h = 5
  /\ ret.status = "error"

\* the points of all returned paths of a glyph record
OutlinePoints(glyph) ==
  UNION {Range(glyph.paths[i].points) : i \in DOMAIN glyph.paths}

\* C6: every returned path tagged is_hole = FALSE has signed area <= 0 and
\* every path tagged is_hole = TRUE has signed area >= 0, the area taken
\* on the final (rounded, flipped, shifted) points in the returned order.
C6_WindingBySign ==
  (call = "process_glyph_bitmap" /\ ret.paths # <<>>) =>
    \A i \in DOMAIN ret.paths :
      /\ ~ret.paths[i].is_hole => PolygonArea2(ret.paths[i].points) <= 0
      /\ ret.paths[i].is_hole => PolygonArea2(ret.paths[i].points) >= 0

\* C6 witness: an outer contour and a hole, both traced in the direction
\* that had to be reversed (pixel y runs down, so a pixel-space area < 0
\* becomes a design-unit area > 0), both returned with non-zero area
C6_Witness ==
  /\ call = "process_glyph_bitmap"
  /\ Len(arg.contours) = 2
  /\ Len(ret.paths) = 2
  /\ PolygonArea2(ApproxPolyDP(arg.contours[1])) < 0
  /\ PolygonArea2(ApproxPolyDP(arg.contours[2])) > 0
  /\ PolygonArea2(ret.paths[1].points) < 0
  /\ PolygonArea2(ret.paths[2].points) > 0

\* C7: for a glyph with non-empty paths the ink sits inside the advance
\* box: left_side_bearing >= 0, every outline point has
\* lsb <= x <= advance_width - lsb, and advance_width is at least the raw
\* ink width (both the scaled box width and the extent of the points).
C7_InkInsideAdvance ==
  (call = "process_glyph_bitmap" /\ ret.paths # <<>>) =>
    LET xs == {p[1] : p \in OutlinePoints(ret)}
        bb == BoundingRect(AllPoints(arg.contours))
    IN  /\ ret.lsb >= 0
        /\ \A x \in xs : ret.lsb <= x /\ x <= ret.advance_width - ret.lsb
        /\ ret.advance_width >= SetMax(xs) - SetMin(xs)
        /\ ret.advance_width >= RawWidth(bb.w, bb.h)

\* C7 witness: a positive bearing, with ink starting exactly at it
C7_Witness ==
  /\ call = "process_glyph_bitmap"
  /\ ret.paths # <<>>
  /\ ret.lsb > 0
  /\ \E p \in OutlinePoints(ret) : p[1] = ret.lsb

\* C8: every glyph record process_glyph_bitmap returns has
\* advance_width > 0 and left_side_bearing >= 0, for every bitmap.
C8_AdvancePositive ==
  call = "process_glyph_bitmap" => (ret.advance_width > 0 /\ ret.lsb >= 0)

\* max y - min y over the returned points
OutlineHeight(glyph) ==
  LET ys == {p[2] : p \in OutlinePoints(glyph)}
  IN  SetMax(ys) - SetMin(ys)

\* C9 as stated: the returned outline is exactly 1000 design units high.
C9_HeightIs1000 ==
  (call = "process_glyph_bitmap" /\ ret.paths # <<>>) =>
    OutlineHeight(ret) = ASCENDER - DESCENDER

\* the pixel rows spanned by the vertices the returned paths come from
RetainedRowSpan(binary) ==
  LET keptc == {i \in DOMAIN binary.contours :
                  /\ Len(binary.contours[i]) >= 3
                  /\ Len(ApproxPolyDP(binary.contours[i])) >= 3}
      ys == {p[2] : p \in UNION {Range(ApproxPolyDP(binary.contours[i])) :
                                   i \in keptc}}
  IN  SetMax(ys) - SetMin(ys)

\* C9 amended: the scale is 1000 / bh for a bounding box bh pixel rows
\* high, and the vertices span at most bh - 1 rows: every returned y lies
\* in -200..800, so the height is at most 1000, and it is within one unit
\* of 1000 * s / bh for vertices spanning s rows; a shape with a
\* 200-pixel-high box whose outline reaches its top and bottom rows is 995
\* units high.
C9_HeightScaledByRows ==
  (call = "process_glyph_bitmap" /\ ret.paths # <<>>) =>
    LET bb == BoundingRect(AllPoints(arg.contours))
        s == RetainedRowSpan(arg)
        H == OutlineHeight(ret)
    IN  /\ \A p \in OutlinePoints(ret) : DESCENDER <= p[2] /\ p[2] <= ASCENDER
        /\ H <= ASCENDER - DESCENDER
        /\ H * bb.h - (ASCENDER - DESCENDER) * s <= bb.h
        /\ (ASCENDER - DESCENDER) * s - H * bb.h <= bb.h
        /\ (bb.h = 200 /\ s = 199) => H = 995

\* C9 witness: a 200-pixel-high box, outline 995 units high
C9_Witness ==
  /\ call = "process_glyph_bitmap"
  /\ ret.paths # <<>>
  /\ BoundingRect(AllPoints(arg.contours)).h = 200
  /\ OutlineHeight(ret) = 995

\* C10: extract returns the mask unchanged when it has no foreground
\* pixel; otherwise a square canvas of side max(w, h) + 20 holding exactly
\* the cropped content at offset ((side - w) // 2, (side - h) // 2), hence
\* with at least 10 background pixels on every side and opposite margins
\* differing by at most 1.
C10_ExtractCentres ==
  call = "extract_single_glyph" =>
    /\ arg.fg = {} => ret = arg
    /\ arg.fg # {} =>
         LET a == BoundingRect(arg.fg)
             r == BoundingRect(ret.fg)
             side == Max(a.w, a.h) + 20
             left == r.x
             right == ret.cols - (r.x + r.w)
             top == r.y
             bottom == ret.rows - (r.y + r.h)
         IN  /\ ret.rows = side /\ ret.cols = side
             /\ r.w = a.w /\ r.h = a.h
             /\ r.x = (side - a.w) \div 2 /\ r.y = (side - a.h) \div 2
             /\ {<<p[1] - r.x, p[2] - r.y>> : p \in ret.fg}
                  = {<<p[1] - a.x, p[2] - a.y>> : p \in arg.fg}
             /\ left >= 10 /\ right >= 10 /\ top >= 10 /\ bottom >= 10
             /\ Abs(left - right) <= 1 /\ Abs(top - bottom) <= 1

\* C10 witness: content wider than high, on a fresh canvas, whose top and
\* bottom margins differ by one
C10_Witness ==
  /\ call = "extract_single_glyph"
  /\ arg.fg # {}
  /\ BoundingRect(arg.fg).w > BoundingRect(arg.fg).h
  /\ ret.rows > arg.rows
  /\ BoundingRect(ret.fg).y + 1
       = ret.rows - (BoundingRect(ret.fg).y + BoundingRect(ret.fg).h)


\* the anchor of the line a box of top-Y y falls on: walking the top-Ys upward,
\* a top-Y under half the median height from the anchor before it shares that
\* anchor, any other is an anchor itself
LineAnchor(bboxes, y) ==
  LET median_h == MedianHeight(bboxes)
      ys == {bboxes[i].y : i \in DOMAIN bboxes}
      anchor[v \in ys] ==
        LET lower == {u \in ys : u < v}
        IN  IF lower = {} THEN v
            ELSE LET a == anchor[SetMax(lower)]
                 IN  IF 2 * (v - a) < median_h THEN a ELSE v
  IN  anchor[y]

\* out lists every box of bboxes as often as bboxes does
IsPermutation(bboxes, out) ==
  /\ Len(out) = Len(bboxes)
  /\ \A b \in Range(bboxes) \cup Range(out) :
       Cardinality({i \in DOMAIN out : out[i] = b})
         = Cardinality({i \in DOMAIN bboxes : bboxes[i] = b})

\* out runs line by line downward and, on a line, by ascending x
InReadingOrder(bboxes, out) ==
  \A i \in 1..(Len(out) - 1) :
    LET a == LineAnchor(bboxes, out[i].y)
        b == LineAnchor(bboxes, out[i + 1].y)
    IN  a < b \/ (a = b /\ out[i].x <= out[i + 1].x)

\* the page of the two-line scenario: two boxes at y about 10, two at y about
\* 200, all 30 high, in any detection order, against the phrase "ab cd"
TwoLines ==
  /\ call = "segment_characters"
  /\ Len(arg.binary.boxes) = 4
  /\ Range(arg.binary.boxes)
       = {Box(10, 10, 20, 30), Box(40, 12, 20, 30),
          Box(10, 200, 20, 30), Box(40, 198, 20, 30)}
  /\ arg.pangram = <<"a", "b", " ", "c", "d">>

\* C11: the reading-order pass returns a permutation of its input boxes, line
\* by line from the top (a box is on the line of the anchor its top-Y is under
\* 0.5 x median height away from) and by ascending x on each line; the two
\* boxes at y about 10 and the two at y about 200, against "ab cd", come out
\* as a, b, c, d
C11_ReadingOrder ==
  /\ call = "sort_reading_order" =>
       IsPermutation(arg, ret) /\ InReadingOrder(arg, ret)
  /\ TwoLines =>
       /\ ret.status = "ok"
       /\ ret.results
            = << [char |-> "a",
                  bitmap |-> Crop(PageShape, Box(10, 10, 20, 30))],
                 [char |-> "b",
                  bitmap |-> Crop(PageShape, Box(40, 12, 20, 30))],
                 [char |-> "c",
                  bitmap |-> Crop(PageShape, Box(10, 200, 20, 30))],
                 [char |-> "d",
                  bitmap |-> Crop(PageShape, Box(40, 198, 20, 30))] >>

\* the two-line page, detected bottom line first, has been segmented
C11_Witness ==
  /\ TwoLines
  /\ arg.binary.boxes[1].y = 200
  /\ ret.status = "ok"
  /\ Len(ret.results) = 4

\* a list whose third box is half a line under the first but not under the
\* second has been put in reading order
C11_AnchorWitness ==
  /\ call = "sort_reading_order"
  /\ \E i, j, k \in DOMAIN arg :
       /\ arg[i].y < arg[j].y /\ arg[j].y < arg[k].y
       /\ LineAnchor(arg, arg[j].y) = arg[i].y
       /\ 2 * (arg[k].y - arg[j].y) < MedianHeight(arg)
       /\ LineAnchor(arg, arg[k].y) = arg[k].y

\* the vertical gap from the bottom of box i to the top of box j
Gap(bboxes, i, j) == bboxes[j].y - (bboxes[i].y + bboxes[i].h)

\* the pairs <<i, j>> of a small box i (height and width both under
\* 0.4 x median height) and another box j that qualifies as its parent
Candidates(bboxes) ==
  LET median_h == MedianHeight(bboxes)
      small == {i \in DOMAIN bboxes :
                  10 * bboxes[i].h < 4 * median_h
                    /\ 10 * bboxes[i].w < 4 * median_h}
  IN  {p \in small \X (DOMAIN bboxes) :
         p[1] # p[2] /\ Qualifies(bboxes[p[1]], bboxes[p[2]], median_h)}

\* box i is met before box j in the walk by ascending top-Y
MetBefore(bboxes, i, j) ==
  bboxes[i].y < bboxes[j].y \/ (bboxes[i].y = bboxes[j].y /\ i < j)

\* the boxes of the pairs of P
Consumed(P) == {p[1] : p \in P} \cup {p[2] : p \in P}

\* out is bboxes with the pairs of P, drawn from cand, merged: every pair is a small box and a
\* box strictly below it with a gap under 0.8 x median height, no box is in
\* two pairs, a pair's parent is the closest parent not taken by a pair met
\* earlier, a small box left alone has no such parent, and out holds the exact
\* union of every pair and every other box once
MergedBy(bboxes, out, cand, P) ==
  LET median_h == MedianHeight(bboxes)
      taken(i) == {q[2] : q \in {r \in P : MetBefore(bboxes, r[1], i)}}
      free(i) == {p[2] : p \in {r \in cand : r[1] = i}} \ taken(i)
      union(p) ==
        LET a == bboxes[p[1]]
            b == bboxes[p[2]]
            left == Min(a.x, b.x)
            top == Min(a.y, b.y)
        IN  [x |-> left, y |-> top,
             w |-> Max(a.x + a.w, b.x + b.w) - left,
             h |-> Max(a.y + a.h, b.y + b.h) - top]
      alone == DOMAIN bboxes \ Consumed(P)
  IN  /\ \A p, q \in P : p # q => {p[1], p[2]} \cap {q[1], q[2]} = {}
      /\ \A p \in P :
           /\ bboxes[p[2]].y > bboxes[p[1]].y
           /\ 10 * Gap(bboxes, p[1], p[2]) < 8 * median_h
           /\ p[2] \in free(p[1])
           /\ \A k \in free(p[1]) :
                Gap(bboxes, p[1], p[2]) <= Gap(bboxes, p[1], k)
      /\ \A i \in alone : free(i) = {}
      /\ Len(out) = Len(bboxes) - Cardinality(P)
      /\ \A v \in Range(out) \cup {bboxes[i] : i \in alone}
                              \cup {union(p) : p \in P} :
           Cardinality({k \in DOMAIN out : out[k] = v})
             = Cardinality({p \in P : union(p) = v})
                 + Cardinality({i \in alone : bboxes[i] = v})

\* C12: the dot-merge pass consumes every input box exactly once, either
\* unchanged or in exactly one merged box; a merged box is the exact union of
\* a small box and the not-yet-consumed qualifying box strictly below it of
\* least gap, that gap under 0.8 x median height; the output has as many boxes
\* as the input less the merges
C12_EveryBoxOnce ==
  call = "merge_close_bboxes" =>
    LET cand == Candidates(arg)
    IN  \E P \in SUBSET cand : MergedBy(arg, ret, cand, P)

\* two dots over one letter: the first met takes the letter, the second takes
\* the next closest box
C12_Witness ==
  /\ call = "merge_close_bboxes"
  /\ Len(ret) = Len(arg) - 2
  /\ \E i, j, k \in DOMAIN arg :
       /\ <<i, k>> \in Candidates(arg)
       /\ <<j, k>> \in Candidates(arg)
       /\ MetBefore(arg, i, j)
       /\ \E m \in DOMAIN arg :
            /\ <<j, m>> \in Candidates(arg)
            /\ Gap(arg, j, k) < Gap(arg, j, m)
            /\ UnionBox(arg[j], arg[m]) \in Range(ret)

\* the stages of process_phrase, in order
Stages == <<"decode", "binarize", "segment", "font">>

\* the errors a stage may end the request with
StageErrors(stage) ==
  CASE stage = "decode" -> {Raised("HTTP400", "Invalid image")}
    [] stage = "binarize" -> {Raised("HTTP422", "Image preprocessing failed")}
    [] stage = "segment" ->
         {Raised("HTTP422", "Character segmentation failed"),
          Raised("HTTP422", "No characters could be segmented")}
    [] stage = "font" -> {Raised("HTTP500", "Font generation failed")}

\* what segmenting the uploaded photo against the phrase gives
Segmented == SegmentCharacters(Preprocess(arg.image), arg.pangram)

\* the stages entered so far are the first stages in order, each once; a
\* request under way is about to run the next one and has no reply; a reply
\* with binaries comes after all four stages, none of which failed; an error
\* is the error of the last stage entered, and the stage that fails is the
\* last one
StagesInOrder ==
  call = "process_pangram" =>
    LET n == Len(ret.ran)
    IN  /\ n <= Len(Stages)
        /\ ret.ran = SubSeq(Stages, 1, n)
        /\ ret.pc # "done" =>
             n < Len(Stages) /\ ret.pc = Stages[n + 1] /\ ret.response = <<>>
        /\ ret.pc = "done" =>
             /\ n >= 1
             /\ ret.response.status \in {"ok", "error"}
             /\ ret.response.status = "error" =>
                  ret.response \in StageErrors(Stages[n])
             /\ ret.response.status = "ok" =>
                  /\ n = Len(Stages)
                  /\ ret.response.ttf.flavor = "ttf"
                  /\ ret.response.woff2.flavor = "woff2"
                  /\ arg.image.decodes
                  /\ Segmented.status = "ok"
                  /\ Segmented.results # <<>>
        /\ ~arg.image.decodes => n <= 1
        /\ (arg.image.decodes
              /\ (Segmented.status = "error" \/ Segmented.results = <<>>))
             => n <= 3

\* a step of a request under way runs the stage it was about to run, once
StageStep ==
  (call = "process_pangram" /\ call' = "process_pangram") =>
    /\ ret.pc # "done"
    /\ ret'.ran = Append(ret.ran, ret.pc)
    /\ arg' = arg

\* C13: in process_phrase the stages run strictly forward in the order
\* decode, binarize, segment, vectorize-and-assemble; a stage starts only
\* after the one before it succeeded; a failure of a stage (an empty
\* segmentation result included) ends the request with that stage's error,
\* no later stage runs and none is retried; font binaries are returned only
\* when every stage succeeded
C13_StagesForward == []StagesInOrder /\ [][StageStep]_vars

\* a request has gone through the four stages and returned binaries
C13_Witness ==
  /\ call = "process_pangram"
  /\ ret.pc = "done"
  /\ ret.ran = Stages
  /\ ret.response.status = "ok"

\* a request has ended at the segment stage on an empty result
C13_EmptyResultWitness ==
  /\ call = "process_pangram"
  /\ ret.pc = "done"
  /\ ret.ran = SubSeq(Stages, 1, 3)
  /\ Segmented.status = "ok"

\* a font endpoint has replied with binaries
Replied ==
  /\ call \in {"process_pangram", "process_drawn_glyphs"}
  /\ ret.pc = "done"
  /\ ret.response.status = "ok"

\* the characters with a content glyph and a cmap entry in a font
InFont(font) ==
  {c \in Alphabet :
     /\ GlyphName(c) \in DOMAIN font.glyf
     /\ font.glyf[GlyphName(c)] # <<>>
     /\ Ord(c) \in DOMAIN font.cmap}

\* C14: whenever process_phrase or process_multi_glyph returns successfully,
\* the reported characters_found is exactly the set of characters that have a
\* content glyph and a cmap entry in the returned font: no character whose
\* mask vectorized to an empty outline is reported
C14_FoundAreInFont ==
  Replied =>
    \A bin \in {ret.response.ttf, ret.response.woff2} :
      Range(ret.response.chars_found) = InFont(bin.font)

====
